---- MODULE Spec2Model ----
(***************************************************************************)
(* The human-in-the-loop review workflow of the meeting assistant:         *)
(* ReviewableItem and ReviewSession (src/src/review/review_manager.py)     *)
(* and the two pipeline entry points that drive them, MeetingPipeline.     *)
(* process and MeetingPipeline.export (src/src/pipeline.py).               *)
(*                                                                         *)
(* Python's None is modelled as the empty set and a present value x as     *)
(* the singleton {x}; a dict is a function from its keys to its values.    *)
(***************************************************************************)
EXTENDS Integers, Sequences, FiniteSets, TLC

\* ------------------------------------------------------------------ bounds

\* Most entries one analysis result carries.
MaxItems == 2
\* Readings of datetime.now() that get stored (two by process, the rest by
\* approve/reject).
MaxClock == 4
\* Calls of MeetingPipeline.export.
MaxExports == 1

\* ------------------------------------------------------- values and inputs

None == {}
Some(x) == {x}
Get(o) == CHOOSE x \in o : TRUE

EmptyDict == [k \in {} |-> ""]

\* bool(d) of a dict held in an Optional: None and {} are both falsy.
Truthy(o) == o # None /\ DOMAIN Get(o) # {}

\* {**a, **b}
Merge(a, b) == [k \in (DOMAIN a) \cup (DOMAIN b) |-> IF k \in DOMAIN b THEN b[k] ELSE a[k]]

BoundedSeq(S, n) == UNION {[1..k -> S] : k \in 0..n}

SummaryInputs == {None, Some(""), Some("Budget approved")}
ActionItemInputs == {[description |-> "Write budget plan", assignee |-> "Anna", deadline |-> "2026-02-28"]}
DecisionInputs == {[description |-> "Hire two engineers"]}
OpenQuestionInputs == {[question |-> "Who owns the rollout?"]}

EntryCount(a) ==
    (IF a.summary # None /\ Get(a.summary) # "" THEN 1 ELSE 0)
    + Len(a.action_items) + Len(a.decisions) + Len(a.open_questions)

\* An analysis result; a missing key is the empty list (or None for summary).
Analyses ==
    {a \in [summary : SummaryInputs,
            action_items : BoundedSeq(ActionItemInputs, MaxItems),
            decisions : BoundedSeq(DecisionInputs, MaxItems),
            open_questions : BoundedSeq(OpenQuestionInputs, MaxItems)] :
        EntryCount(a) <= MaxItems}

\* Analyses with two different action items, so that their order shows.
MoreActionItemInputs ==
    ActionItemInputs \cup {[description |-> "Book venue", assignee |-> "Max", deadline |-> "2026-03-15"]}

IngestAnalyses ==
    {a \in [summary : SummaryInputs,
            action_items : BoundedSeq(MoreActionItemInputs, MaxItems),
            decisions : BoundedSeq(DecisionInputs, MaxItems),
            open_questions : BoundedSeq(OpenQuestionInputs, MaxItems)] :
        EntryCount(a) <= MaxItems}

TitleInputs == {Some("Budget Q2")}
Reviewers == {"Max", "Anna"}
ChangesInputs == {None, Some(EmptyDict), Some([deadline |-> "2026-03-01"])}
ReasonInputs == {None, Some("duplicate")}
StatePath == "review_state.json"
PathInputs == {None, Some(StatePath)}

\* ------------------------------------------------------------------- state

VARIABLES
    phase,          \* "constructed": pipeline built, no session yet; "review": process() returned a session
    integrations,   \* the lazily built _odoo and _memory: None until export first asks for
                    \* them, then [odoo, memory]: whether each is available
    clock,          \* the next value datetime.now() yields
    meeting_id, title, created_at,
    items,          \* ReviewSession.items
    summary_item,   \* index into items of ReviewSession.summary_item, 0 for None
    state_path,     \* ReviewSession._state_path
    file,           \* the review_state.json document on disk, None while it does not exist
    draft_written,  \* protocol_draft.md exists in the output directory
    odoo_calls,     \* every OdooConnector.create_task call of export, in order
    final_protocol, \* protocol_final.md: the reviewer names patched into the draft
    memory_file,    \* what MemoryStore.save_meeting was handed
    handed,         \* ids of the items whose data export has passed to a downstream adapter
    exports,        \* number of export() calls so far
    raised          \* what the latest call raised to its caller: the exception type, and
                    \* for export's RuntimeError the pending count its message carries

vars == <<phase, integrations, clock, meeting_id, title, created_at, items, summary_item,
          state_path, file, draft_written, odoo_calls, final_protocol, memory_file,
          handed, exports, raised>>

exportVars == <<odoo_calls, final_protocol, memory_file, handed, exports>>

Returned == [type |-> "none", pending |-> 0]
Raised(type, pending) == [type |-> type, pending |-> pending]

\* ---------------------------------------------------------- ReviewableItem

\* A constructor whose items start out approved.
ReviewableItem_approved(kind, data, uid) ==
    [id |-> uid, kind |-> kind, status |-> "approved",
     original_data |-> data, approved_data |-> Some(data),
     reviewed_by |-> None, reviewed_at |-> None, reject_reason |-> None]

ReviewableItem(kind, data, uid) ==
    [id |-> uid, kind |-> kind, status |-> "draft",
     original_data |-> data, approved_data |-> None,
     reviewed_by |-> None, reviewed_at |-> None, reject_reason |-> None]

\* An item whose original_data is the very dict the caller passed in.
SharesInput_nocopy(item) == item.kind # "summary"

\* self.original_data = deepcopy(data): whether the item's original_data is
\* still the object the caller of the constructor holds. The copy is a new
\* object, so no item shares it.
SharesInput(item) == FALSE

\* approve that takes the edits for the whole of approved_data.
approve_replace(item, reviewer, now, changes) ==
    [item EXCEPT !.status = "approved",
                 !.reviewed_by = Some(reviewer),
                 !.reviewed_at = Some(now),
                 !.approved_data = IF Truthy(changes) THEN changes ELSE Some(item.original_data)]

approve(item, reviewer, now, changes) ==
    [item EXCEPT !.status = "approved",
                 !.reviewed_by = Some(reviewer),
                 !.reviewed_at = Some(now),
                 !.approved_data = IF Truthy(changes)
                                   THEN Some(Merge(item.original_data, Get(changes)))
                                   ELSE Some(item.original_data)]

\* reject that forgets the review stamp.
reject_unstamped(item, reviewer, now, reason) ==
    [item EXCEPT !.status = "rejected", !.reject_reason = reason]

\* reject that puts an approved item back to draft.
reject_reopening(item, reviewer, now, reason) ==
    [item EXCEPT !.status = IF @ = "approved" THEN "draft" ELSE "rejected",
                 !.reviewed_by = Some(reviewer),
                 !.reviewed_at = Some(now),
                 !.reject_reason = reason]

reject(item, reviewer, now, reason) ==
    [item EXCEPT !.status = "rejected",
                 !.reviewed_by = Some(reviewer),
                 !.reviewed_at = Some(now),
                 !.reject_reason = reason]

\* The data property, approved_data or original_data: which of the item's two
\* dict objects it returns (callers get the object itself, not a copy) ...
dataField(item) == IF Truthy(item.approved_data) THEN "approved_data" ELSE "original_data"

\* ... and that dict's content.
data(item) == IF dataField(item) = "approved_data" THEN Get(item.approved_data) ELSE item.original_data

to_dict(item) ==
    [id |-> item.id, kind |-> item.kind, status |-> item.status,
     original_data |-> item.original_data, approved_data |-> item.approved_data,
     reviewed_by |-> item.reviewed_by, reviewed_at |-> item.reviewed_at,
     reject_reason |-> item.reject_reason]

\* The id a ReviewableItem gets in from_dict's constructor call, overwritten at once.
FreshUuid == 0

\* d.get(key): None when the key is absent.
DictGet(d, key) == IF key \in DOMAIN d THEN d[key] ELSE None

\* The keys from_dict reads with d[...]: a KeyError when one is absent.
ItemKeys == {"kind", "original_data", "id", "status"}

\* from_dict that does not read reject_reason back.
from_dict_lossy(d) ==
    [ReviewableItem(d.kind, d.original_data, FreshUuid) EXCEPT
        !.id = d.id, !.status = d.status, !.approved_data = DictGet(d, "approved_data"),
        !.reviewed_by = DictGet(d, "reviewed_by"), !.reviewed_at = DictGet(d, "reviewed_at")]

\* from_dict that leaves the id the constructor drew.
from_dict_newid(d) ==
    [ReviewableItem(d.kind, d.original_data, FreshUuid) EXCEPT
        !.status = d.status, !.approved_data = DictGet(d, "approved_data"),
        !.reviewed_by = DictGet(d, "reviewed_by"), !.reviewed_at = DictGet(d, "reviewed_at"),
        !.reject_reason = DictGet(d, "reject_reason")]

from_dict(d) ==
    [ReviewableItem(d.kind, d.original_data, FreshUuid) EXCEPT
        !.id = d.id, !.status = d.status, !.approved_data = DictGet(d, "approved_data"),
        !.reviewed_by = DictGet(d, "reviewed_by"), !.reviewed_at = DictGet(d, "reviewed_at"),
        !.reject_reason = DictGet(d, "reject_reason")]

\* ----------------------------------------------------------- ReviewSession

\* The indices in S of the list its, in list order: what a comprehension
\* [... for i in its if ...] walks.
Where(its, S) ==
    LET F[k \in 0..Len(its)] ==
            IF k = 0 THEN <<>>
            ELSE IF k \in S THEN Append(F[k - 1], k) ELSE F[k - 1]
    IN  F[Len(its)]

\* sum(1 for i in its if ...)
Count(its, S) == Cardinality(S \cap DOMAIN its)

Range(s) == {s[k] : k \in DOMAIN s}

\* The entries of a list turned into items last first.
Created_reversed(kind, datas, base) ==
    [k \in 1..Len(datas) |-> ReviewableItem(kind, datas[Len(datas) + 1 - k], base + k)]

Created(kind, datas, base) ==
    [k \in 1..Len(datas) |-> ReviewableItem(kind, datas[k], base + k)]

\* add_from_analysis: the new items list and summary_item. A uuid is modelled
\* by the position its item is created at.
add_from_analysis(its, smry, analysis) ==
    LET hasSummary == analysis.summary # None /\ Get(analysis.summary) # ""
        s1 == IF hasSummary
              THEN Append(its, ReviewableItem("summary", [text |-> Get(analysis.summary)], Len(its) + 1))
              ELSE its
        s2 == s1 \o Created("action_item", analysis.action_items, Len(s1))
        s3 == s2 \o Created("decision", analysis.decisions, Len(s2))
        s4 == s3 \o Created("open_question", analysis.open_questions, Len(s3))
    IN  [items |-> s4, summary_item |-> IF hasSummary THEN Len(its) + 1 ELSE smry]

\* get_pending without its status filter.
get_pending_all(its) == Where(its, DOMAIN its)

get_pending(its) == Where(its, {k \in DOMAIN its : its[k].status = "draft"})
get_approved(its) == Where(its, {k \in DOMAIN its : its[k].status = "approved"})
get_rejected(its) == Where(its, {k \in DOMAIN its : its[k].status = "rejected"})
get_by_kind(its, kind) == Where(its, {k \in DOMAIN its : its[k].kind = kind})

\* get_by_id that hands out the first item whatever the id.
get_by_id_first(its, item_id) == IF its = <<>> THEN 0 ELSE 1

\* get_by_id: the index of the first item carrying item_id, 0 for None.
get_by_id(its, item_id) ==
    LET hits == Where(its, {k \in DOMAIN its : its[k].id = item_id})
    IN  IF hits = <<>> THEN 0 ELSE hits[1]

\* is_complete with any() for all(): one reviewed item is enough.
is_complete_any(its) == its = <<>> \/ \E k \in DOMAIN its : its[k].status # "draft"

is_complete(its) == \A k \in DOMAIN its : its[k].status # "draft"

\* progress that counts a rejected item as still pending.
progress_miscount(its) ==
    LET total == Len(its)
        approved == Count(its, {k \in DOMAIN its : its[k].status = "approved"})
    IN  [total |-> total,
         reviewed |-> approved,
         pending |-> total - approved,
         approved |-> approved,
         rejected |-> Count(its, {k \in DOMAIN its : its[k].status = "rejected"}),
         percent |-> IF total # 0 THEN (approved * 100) \div total ELSE 100]

progress(its) ==
    LET total == Len(its)
        reviewed == Count(its, {k \in DOMAIN its : its[k].status # "draft"})
    IN  [total |-> total,
         reviewed |-> reviewed,
         pending |-> total - reviewed,
         approved |-> Count(its, {k \in DOMAIN its : its[k].status = "approved"}),
         rejected |-> Count(its, {k \in DOMAIN its : its[k].status = "rejected"}),
         percent |-> IF total # 0 THEN (reviewed * 100) \div total ELSE 100]

\* approve_all walks get_pending(), one datetime.now() per item.
RECURSIVE ApproveEach(_, _, _, _)
ApproveEach(its, idx, reviewer, now) ==
    IF idx = <<>> THEN its
    ELSE ApproveEach([its EXCEPT ![Head(idx)] = approve(@, reviewer, now, None)],
                     Tail(idx), reviewer, now + 1)

\* approve_all that approves the rejected items too.
approve_all_rejected(its, reviewer, now) ==
    ApproveEach(its, Where(its, {k \in DOMAIN its : its[k].status # "approved"}), reviewer, now)

approve_all(its, reviewer, now) == ApproveEach(its, get_pending(its), reviewer, now)

\* approve_item that approves every item up to the one it looked for.
approve_item_upto(its, item_id, reviewer, now, changes) ==
    LET k == get_by_id(its, item_id)
    IN  [j \in DOMAIN its |-> IF j <= k THEN approve(its[j], reviewer, now, changes) ELSE its[j]]

approve_item(its, item_id, reviewer, now, changes) ==
    LET k == get_by_id(its, item_id)
    IN  IF k # 0 THEN [its EXCEPT ![k] = approve(@, reviewer, now, changes)] ELSE its

reject_item(its, item_id, reviewer, now, reason) ==
    LET k == get_by_id(its, item_id)
    IN  IF k # 0 THEN [its EXCEPT ![k] = reject(@, reviewer, now, reason)] ELSE its

\* A reference to one of an item's dict objects, as the accessors return it.
Ref(its, k) == [item |-> k, field |-> dataField(its[k])]
Deref(its, r) == IF r.field = "approved_data" THEN Get(its[r.item].approved_data)
                 ELSE its[r.item].original_data
Refs(its, idx) == [n \in 1..Len(idx) |-> Ref(its, idx[n])]
Values(its, refs) == [n \in 1..Len(refs) |-> Deref(its, refs[n])]

\* The accessor without its status filter.
get_approved_action_items_any(its) ==
    Refs(its, Where(its, {k \in DOMAIN its : its[k].kind = "action_item"}))

\* The accessor cut off after its first entry.
get_approved_action_items_first(its) ==
    LET idx == Where(its, {k \in DOMAIN its : its[k].kind = "action_item" /\ its[k].status = "approved"})
    IN  Refs(its, IF idx = <<>> THEN <<>> ELSE <<idx[1]>>)

get_approved_action_items(its) ==
    Refs(its, Where(its, {k \in DOMAIN its : its[k].kind = "action_item" /\ its[k].status = "approved"}))

\* The accessor behind a completeness gate of its own.
get_approved_decisions_gated(its) ==
    IF \E k \in DOMAIN its : its[k].status = "draft" THEN <<>>
    ELSE Refs(its, Where(its, {k \in DOMAIN its : its[k].kind = "decision" /\ its[k].status = "approved"}))

get_approved_decisions(its) ==
    Refs(its, Where(its, {k \in DOMAIN its : its[k].kind = "decision" /\ its[k].status = "approved"}))

\* .data.get('text') of the summary item: None when the key is absent.
\* The accessor without its status test.
get_approved_summary_any(its, smry) ==
    IF smry # 0
    THEN (IF "text" \in DOMAIN data(its[smry]) THEN Some(data(its[smry])["text"]) ELSE None)
    ELSE None

get_approved_summary(its, smry) ==
    IF smry # 0 /\ its[smry].status = "approved"
    THEN (IF "text" \in DOMAIN data(its[smry]) THEN Some(data(its[smry])["text"]) ELSE None)
    ELSE None

\* The document save() writes.
Encode(mid, ttl, created, its) ==
    [meeting_id |-> mid, title |-> ttl, created_at |-> created,
     progress |-> progress(its),
     items |-> [k \in 1..Len(its) |-> to_dict(its[k])]]

\* The keys load() reads with data[...]: a KeyError when one is absent.
SessionKeys == {"meeting_id", "title", "created_at"}

\* data.get('items', [])
DocItems(doc) == IF "items" \in DOMAIN doc THEN doc.items ELSE <<>>

\* load() ends in a KeyError, raised by its own data[...] or by from_dict's d[...].
LoadRaises(doc) ==
    \/ SessionKeys \ DOMAIN doc # {}
    \/ \E k \in DOMAIN DocItems(doc) : ItemKeys \ DOMAIN DocItems(doc)[k] # {}

\* load() that takes the items for reviewed when the progress block of the
\* document says none is pending.
Decode_trusting(doc, path) ==
    LET done == "progress" \in DOMAIN doc /\ doc.progress.pending = 0
        its == [k \in 1..Len(DocItems(doc)) |->
                   IF done /\ DocItems(doc)[k].status = "draft"
                   THEN [from_dict(DocItems(doc)[k]) EXCEPT !.status = "approved"]
                   ELSE from_dict(DocItems(doc)[k])]
        sums == get_by_kind(its, "summary")
    IN  [meeting_id |-> doc.meeting_id, title |-> doc.title, created_at |-> doc.created_at,
         state_path |-> Some(path), items |-> its,
         summary_item |-> IF sums = <<>> THEN 0 ELSE sums[Len(sums)]]

\* load() that does not set summary_item.
Decode_nosummary(doc, path) ==
    [meeting_id |-> doc.meeting_id, title |-> doc.title, created_at |-> doc.created_at,
     state_path |-> Some(path),
     items |-> [k \in 1..Len(DocItems(doc)) |-> from_dict(DocItems(doc)[k])],
     summary_item |-> 0]

\* load(), when it raises nothing: the session rebuilt from a document;
\* summary_item is the last item of kind summary the loop meets.
Decode(doc, path) ==
    LET its == [k \in 1..Len(DocItems(doc)) |-> from_dict(DocItems(doc)[k])]
        sums == get_by_kind(its, "summary")
    IN  [meeting_id |-> doc.meeting_id, title |-> doc.title, created_at |-> doc.created_at,
         state_path |-> Some(path), items |-> its,
         summary_item |-> IF sums = <<>> THEN 0 ELSE sums[Len(sums)]]

\* ---------------------------------------------------------- MeetingPipeline

\* create_task reads action_item['assignee'] and ['description'] and raises
\* KeyError when one is missing.
HasTaskKeys(ai) == "assignee" \in DOMAIN ai /\ "description" \in DOMAIN ai

\* The task id written together with a status of its own.
SetTaskId_marking(item, field, tid) ==
    IF field = "approved_data"
    THEN [item EXCEPT !.approved_data = Some(Merge(Get(@), [odoo_task_id |-> tid])),
                      !.status = "exported"]
    ELSE [item EXCEPT !.original_data = Merge(@, [odoo_task_id |-> tid]),
                      !.status = "exported"]

\* ai['odoo_task_id'] = task_id, written through the reference into the item.
SetTaskId(item, field, tid) ==
    IF field = "approved_data"
    THEN [item EXCEPT !.approved_data = Some(Merge(Get(@), [odoo_task_id |-> tid]))]
    ELSE [item EXCEPT !.original_data = Merge(@, [odoo_task_id |-> tid])]

\* The open-questions list export builds itself.
approved_open_questions(its) ==
    Refs(its, SelectSeq(get_by_kind(its, "open_question"),
                        LAMBDA k : its[k].status = "approved"))

\* The names export patches into the draft: reviewed_by of the approved items.
ReviewedBy(its) ==
    {Get(its[k].reviewed_by) : k \in {j \in Range(get_approved(its)) :
                                        its[j].reviewed_by # None /\ Get(its[j].reviewed_by) # ""}}

Init ==
    /\ phase = "constructed"
    /\ integrations = None
    /\ clock = 0
    /\ meeting_id = None /\ title = None /\ created_at = None
    /\ items = <<>>
    /\ summary_item = 0
    /\ state_path = None
    /\ file = None
    /\ draft_written = FALSE
    /\ odoo_calls = <<>>
    /\ final_protocol = None
    /\ memory_file = None
    /\ handed = {}
    /\ exports = 0
    /\ raised = Returned

\* process(): steps 1-5 end with protocol_draft.md written; step 6 builds the
\* session (meeting_id and created_at are two readings of the clock), ingests
\* the analysis and saves it.
Process(analysis, titleArg) ==
    /\ phase = "constructed"
    /\ clock + 2 <= MaxClock
    /\ LET ingested == add_from_analysis(<<>>, 0, analysis)
           ttl == IF titleArg # None /\ Get(titleArg) # "" THEN Get(titleArg) ELSE "Meeting"
       IN  /\ meeting_id' = Some(clock)
           /\ title' = Some(ttl)
           /\ created_at' = Some(clock + 1)
           /\ items' = ingested.items
           /\ summary_item' = ingested.summary_item
           /\ state_path' = Some(StatePath)
           /\ file' = Some(Encode(Some(clock), Some(ttl), Some(clock + 1), ingested.items))
    /\ clock' = clock + 2
    /\ draft_written' = TRUE
    /\ phase' = "review"
    /\ raised' = Returned
    /\ UNCHANGED <<integrations, exportVars>>

ApproveItem(item_id, reviewer, changes) ==
    /\ phase = "review"
    /\ clock < MaxClock
    /\ items' = approve_item(items, item_id, reviewer, clock, changes)
    /\ clock' = IF get_by_id(items, item_id) # 0 THEN clock + 1 ELSE clock
    /\ raised' = Returned
    /\ UNCHANGED <<phase, integrations, meeting_id, title, created_at, summary_item, state_path,
                   file, draft_written, exportVars>>

RejectItem(item_id, reviewer, reason) ==
    /\ phase = "review"
    /\ clock < MaxClock
    /\ items' = reject_item(items, item_id, reviewer, clock, reason)
    /\ clock' = IF get_by_id(items, item_id) # 0 THEN clock + 1 ELSE clock
    /\ raised' = Returned
    /\ UNCHANGED <<phase, integrations, meeting_id, title, created_at, summary_item, state_path,
                   file, draft_written, exportVars>>

ApproveAll(reviewer) ==
    /\ phase = "review"
    /\ clock + Len(get_pending(items)) <= MaxClock
    /\ items' = approve_all(items, reviewer, clock)
    /\ clock' = clock + Len(get_pending(items))
    /\ raised' = Returned
    /\ UNCHANGED <<phase, integrations, meeting_id, title, created_at, summary_item, state_path,
                   file, draft_written, exportVars>>

\* save() that opens the file for appending: the items go after those the
\* file holds.
Save_append(path) ==
    /\ phase = "review"
    /\ LET target == IF path # None THEN path ELSE state_path
           now == Encode(meeting_id, title, created_at, items)
       IN  IF target = None
           THEN /\ raised' = Raised("ValueError", 0)
                /\ UNCHANGED <<state_path, file>>
           ELSE /\ state_path' = target
                /\ file' = Some(IF file = None THEN now
                                ELSE [now EXCEPT !.items = DocItems(Get(file)) \o @])
                /\ raised' = Returned
    /\ UNCHANGED <<phase, integrations, clock, meeting_id, title, created_at, items, summary_item,
                   draft_written, exportVars>>

\* save(path): ValueError when neither the argument nor an earlier call names a path.
Save(path) ==
    /\ phase = "review"
    /\ LET target == IF path # None THEN path ELSE state_path
       IN  IF target = None
           THEN /\ raised' = Raised("ValueError", 0)
                /\ UNCHANGED <<state_path, file>>
           ELSE /\ state_path' = target
                /\ file' = Some(Encode(meeting_id, title, created_at, items))
                /\ raised' = Returned
    /\ UNCHANGED <<phase, integrations, clock, meeting_id, title, created_at, items, summary_item,
                   draft_written, exportVars>>

\* session = ReviewSession.load(path): the caller goes on with the loaded
\* session, or, when load raises, with the session it had.
Load ==
    /\ phase = "review"
    /\ file # None
    /\ IF LoadRaises(Get(file))
       THEN /\ raised' = Raised("KeyError", 0)
            /\ UNCHANGED <<meeting_id, title, created_at, items, summary_item, state_path>>
       ELSE /\ LET s == Decode(Get(file), StatePath)
               IN  /\ meeting_id' = s.meeting_id
                   /\ title' = s.title
                   /\ created_at' = s.created_at
                   /\ items' = s.items
                   /\ summary_item' = s.summary_item
                   /\ state_path' = s.state_path
            /\ raised' = Returned
    /\ UNCHANGED <<phase, integrations, clock, file, draft_written, exportVars>>

\* session.add_from_analysis(analysis) called on the session process() returned.
AddFromAnalysis(analysis) ==
    /\ phase = "review"
    /\ Len(items) <= MaxItems
    /\ LET ingested == add_from_analysis(items, summary_item, analysis)
       IN  /\ items' = ingested.items
           /\ summary_item' = ingested.summary_item
    /\ raised' = Returned
    /\ UNCHANGED <<phase, integrations, clock, meeting_id, title, created_at, state_path,
                   file, draft_written, exportVars>>

\* What can happen to review_state.json between a save and a load: a key of
\* the document or of one of its items is lost, or an item's status or kind
\* is overwritten with a value the program does not know.
DocKeys == SessionKeys \cup {"items", "progress"}
ItemFields == ItemKeys \cup {"approved_data", "reviewed_by", "reviewed_at", "reject_reason"}
Statuses == {"draft", "approved", "rejected"}
Kinds == {"summary", "action_item", "decision", "open_question"}

Faults ==
    [op : {"drop"}, n : {0}, key : DocKeys, value : {""}]
        \cup [op : {"drop_item"}, n : 1..MaxItems, key : ItemFields, value : {""}]
        \cup [op : {"set_item"}, n : 1..MaxItems, key : {"status"}, value : {"archived"}]
        \cup [op : {"set_item"}, n : 1..MaxItems, key : {"kind"}, value : {"note"}]
        \cup [op : {"set_progress"}, n : {0}, key : {"progress"}, value : {"all reviewed"}]

Without(d, key) == [k \in DOMAIN d \ {key} |-> d[k]]

\* A progress block that says every item is reviewed.
AllReviewed(p) == [p EXCEPT !.reviewed = p.total, !.pending = 0, !.percent = 100]

Damaged(doc, fault) ==
    IF fault.op = "drop" THEN Without(doc, fault.key)
    ELSE IF fault.op = "set_progress" THEN [doc EXCEPT !.progress = AllReviewed(@)]
    ELSE IF fault.n \notin DOMAIN doc.items THEN doc
    ELSE IF fault.op = "drop_item"
    THEN [doc EXCEPT !.items[fault.n] = Without(@, fault.key)]
    ELSE [doc EXCEPT !.items[fault.n] = [k \in DOMAIN @ |-> IF k = fault.key THEN fault.value ELSE @[k]]]

\* A document as save() writes it.
AsSaved(doc) ==
    /\ DOMAIN doc = DocKeys
    /\ \A k \in DOMAIN doc.items :
          /\ DOMAIN doc.items[k] = ItemFields
          /\ doc.items[k].status \in Statuses
          /\ doc.items[k].kind \in Kinds
    /\ doc.progress = progress(doc.items)

\* One fault hits the document save() wrote.
Tamper(fault) ==
    /\ phase = "review"
    /\ file # None
    /\ AsSaved(Get(file))
    /\ file' = Some(Damaged(Get(file), fault))
    /\ file' # file
    /\ UNCHANGED <<phase, integrations, clock, meeting_id, title, created_at, items, summary_item,
                   state_path, draft_written, exportVars, raised>>

\* The owner of the analysis dict that was ingested changes its entries in
\* place (entry.update(edits)): what that does to the session's items.
MutateAnalysis(edits) ==
    /\ phase = "review"
    /\ items' = [k \in DOMAIN items |->
                    IF SharesInput(items[k])
                    THEN [items[k] EXCEPT !.original_data = Merge(@, edits)]
                    ELSE items[k]]
    /\ UNCHANGED <<phase, integrations, clock, meeting_id, title, created_at, summary_item,
                   state_path, file, draft_written, exportVars, raised>>

\* What the sub-steps of one export() call can meet in their environment:
\* "write" - protocol_final.md cannot be written, "memory" - save_meeting raises.
Aborts == {"none", "write", "memory"}

Configs == [odoo : BOOLEAN, memory : BOOLEAN]

\* export(session). cfg: what the odoo and memory properties resolve to;
\* failing: the items whose create_task call raises for a reason of Odoo's
\* (assignee not matched, RPC fault); abort: see Aborts.
Export(cfg, failing, abort) ==
    /\ phase = "review"
    /\ IF ~is_complete(items)
       THEN /\ raised' = Raised("RuntimeError", progress(items).pending)
            /\ UNCHANGED <<items, integrations, exportVars>>
       ELSE LET approved_actions == get_approved_action_items(items)
                useOdoo == approved_actions # <<>> /\ cfg.odoo
                ok(n) == /\ HasTaskKeys(Deref(items, approved_actions[n]))
                         /\ approved_actions[n].item \notin failing
                made(n) == Cardinality({m \in 1..n : ok(m)})
                created == Cardinality({c \in DOMAIN odoo_calls : odoo_calls[c].ok})
                taskOf(k) == CHOOSE n \in DOMAIN approved_actions : approved_actions[n].item = k
                \* 1. Odoo tasks
                its1 == IF useOdoo
                        THEN [k \in DOMAIN items |->
                                IF \E n \in DOMAIN approved_actions :
                                        approved_actions[n].item = k /\ ok(n)
                                THEN SetTaskId(items[k], approved_actions[taskOf(k)].field,
                                               ToString(created + made(taskOf(k))))
                                ELSE items[k]]
                        ELSE items
                calls == IF useOdoo
                         THEN [n \in DOMAIN approved_actions |->
                                 [item |-> items[approved_actions[n].item].id,
                                  data |-> Deref(items, approved_actions[n]),
                                  ok |-> ok(n)]]
                         ELSE <<>>
                \* 2. final protocol
                writes == draft_written
                wrote == writes /\ abort # "write"
                final == IF wrote THEN Some(ReviewedBy(its1)) ELSE final_protocol
                \* 3. memory
                reached == ~(writes /\ abort = "write")
                saves == reached /\ cfg.memory
                saved == saves /\ abort # "memory"
                decisions == get_approved_decisions(its1)
                questions == approved_open_questions(its1)
                summary == get_approved_summary(its1, summary_item)
                analysis_approved ==
                    [summary |-> IF summary # None /\ Get(summary) # "" THEN Get(summary) ELSE "",
                     action_items |-> Values(its1, approved_actions),
                     decisions |-> Values(its1, decisions),
                     open_questions |-> Values(its1, questions),
                     key_topics |-> <<>>]
                passed == {its1[r.item].id : r \in Range(approved_actions) \cup Range(decisions)
                                                    \cup Range(questions)}
                          \cup (IF summary # None THEN {its1[summary_item].id} ELSE {})
            IN  /\ exports < MaxExports
                /\ integrations \in {None, Some(cfg)}
                /\ exports' = exports + 1
                /\ integrations' = Some(cfg)
                /\ items' = its1
                /\ odoo_calls' = odoo_calls \o calls
                /\ final_protocol' = final
                /\ memory_file' = IF saved
                                  THEN Some([protocol_md |-> final, analysis |-> analysis_approved])
                                  ELSE memory_file
                /\ handed' = handed
                               \cup (IF useOdoo THEN {c.item : c \in Range(calls)} ELSE {})
                               \cup (IF saves THEN passed ELSE {})
                /\ raised' = IF (writes /\ abort = "write") \/ (saves /\ abort = "memory")
                             THEN Raised("OSError", 0) ELSE Returned
    /\ UNCHANGED <<phase, clock, meeting_id, title, created_at, summary_item,
                   state_path, file, draft_written>>

ActionItems(its) == Range(get_by_kind(its, "action_item"))

ItemIdInputs == 1..(MaxItems + 1)

\* What the owner of an ingested analysis writes into its entries later on.
AnalysisEdits == {[deadline |-> "2026-04-15"]}

Next ==
    \/ \E a \in Analyses, t \in TitleInputs : Process(a, t)
    \/ \E i \in ItemIdInputs, r \in Reviewers, c \in ChangesInputs : ApproveItem(i, r, c)
    \/ \E i \in ItemIdInputs, r \in Reviewers, why \in ReasonInputs : RejectItem(i, r, why)
    \/ \E r \in Reviewers : ApproveAll(r)
    \/ \E path \in PathInputs : Save(path)
    \/ Load
    \/ \E e \in AnalysisEdits : MutateAnalysis(e)
    \/ \E cfg \in Configs, failing \in SUBSET ActionItems(items), abort \in Aborts :
            Export(cfg, failing, abort)

Spec == Init /\ [][Next]_vars

\* The session driven directly: analyses ingested into it again after process().
IngestNext ==
    \/ \E a \in IngestAnalyses, t \in TitleInputs : Process(a, t)
    \/ \E a \in IngestAnalyses : AddFromAnalysis(a)
    \/ \E r \in Reviewers : ApproveAll(r)

IngestSpec == Init /\ [][IngestNext]_vars

\* The review alone: the calls a reviewer makes on the session process() returned.
ReviewNext ==
    \/ \E a \in Analyses, t \in TitleInputs : Process(a, t)
    \/ \E i \in ItemIdInputs, r \in Reviewers, c \in ChangesInputs : ApproveItem(i, r, c)
    \/ \E i \in ItemIdInputs, r \in Reviewers, why \in ReasonInputs : RejectItem(i, r, why)
    \/ \E r \in Reviewers : ApproveAll(r)

ReviewSpec == Init /\ [][ReviewNext]_vars

\* A session saved and loaded with a state file that is damaged in between.
CodecNext ==
    \/ \E a \in Analyses, t \in TitleInputs : Process(a, t)
    \/ \E r \in Reviewers : ApproveAll(r)
    \/ \E path \in PathInputs : Save(path)
    \/ \E fault \in Faults : Tamper(fault)
    \/ Load

CodecSpec == Init /\ [][CodecNext]_vars

\* A session loaded from a state file that was changed after process() wrote
\* it, and then exported.
GateNext ==
    \/ \E a \in Analyses, t \in TitleInputs : Process(a, t)
    \/ \E r \in Reviewers : ApproveAll(r)
    \/ \E fault \in Faults : Tamper(fault)
    \/ Load
    \/ \E cfg \in Configs, failing \in SUBSET ActionItems(items), abort \in Aborts :
            Export(cfg, failing, abort)

GateSpec == Init /\ [][GateNext]_vars

\* ------------------------------------------------------------------ claims

Drafts(its) == {k \in DOMAIN its : its[k].status = "draft"}
Terminal(item) == item.status \in {"approved", "rejected"}

\* The items an accessor's result refers to.
ItemsOf(refs) == {r.item : r \in Range(refs)}

\* The items some export accessor returns data of.
ReturnedItems(its, smry) ==
    ItemsOf(get_approved_action_items(its)) \cup ItemsOf(get_approved_decisions(its))
        \cup ItemsOf(approved_open_questions(its))
        \cup (IF get_approved_summary(its, smry) # None THEN {smry} ELSE {})

ExportCall ==
    \E cfg \in Configs, failing \in SUBSET ActionItems(items), abort \in Aborts :
        Export(cfg, failing, abort)

\* C1: approve or reject (through approve_item / reject_item) of an item that
\* is already approved or rejected raises an invalid-transition error and
\* leaves every field of the item as it was.
C1_TerminalStatesSticky ==
    [][\A i \in ItemIdInputs, r \in Reviewers, c \in ChangesInputs, why \in ReasonInputs :
          /\ ApproveItem(i, r, c) \/ RejectItem(i, r, why)
          /\ get_by_id(items, i) # 0
          /\ Terminal(items[get_by_id(items, i)])
          => /\ raised'.type = "InvalidTransition"
             /\ items' = items]_vars

\* C2: an item that is rejected is, after any further call, still not
\* returned by any export accessor and not handed to a downstream adapter.
C2_RejectionPermanent ==
    [][\A k \in DOMAIN items :
          items[k].status = "rejected"
          => /\ k \in DOMAIN items'
             /\ k \notin ReturnedItems(items', summary_item')
             /\ items[k].id \notin handed' \ handed]_vars

\* C3: in every reachable state each export accessor (action items,
\* decisions, summary text, and the open-questions list export builds)
\* returns data only of items of its own kind whose status is approved.
C3_AccessorsOnlyApproved ==
    /\ \A k \in ItemsOf(get_approved_action_items(items)) :
          items[k].kind = "action_item" /\ items[k].status = "approved"
    /\ \A k \in ItemsOf(get_approved_decisions(items)) :
          items[k].kind = "decision" /\ items[k].status = "approved"
    /\ \A k \in ItemsOf(approved_open_questions(items)) :
          items[k].kind = "open_question" /\ items[k].status = "approved"
    /\ get_approved_summary(items, summary_item) # None
          => /\ summary_item \in DOMAIN items
             /\ items[summary_item].kind = "summary"
             /\ items[summary_item].status = "approved"
    /\ \A k \in DOMAIN items : ~(items[k].status = "approved") => k \notin ReturnedItems(items, summary_item)

\* A session with an approved and a rejected action item: the accessor
\* returns the one and not the other.
C3_Witness ==
    \E j, k \in DOMAIN items :
        /\ items[j].kind = "action_item" /\ items[j].status = "approved"
        /\ items[k].kind = "action_item" /\ items[k].status = "rejected"
        /\ ItemsOf(get_approved_action_items(items)) = {j}

\* C4: export of a session with a draft item raises the review-incomplete
\* error carrying the number of draft items, has no export effect and
\* changes no item.
C4_ExportRefusedWhileDraft ==
    [][Drafts(items) # {} /\ ExportCall
          => /\ raised' = Raised("RuntimeError", Cardinality(Drafts(items)))
             /\ UNCHANGED <<items, odoo_calls, final_protocol, memory_file, handed, file>>]_vars

\* Export was refused with one item still draft beside a rejected one.
C4_Witness ==
    /\ raised = Raised("RuntimeError", 1)
    /\ \E j, k \in DOMAIN items : items[j].status = "draft" /\ items[k].status = "rejected"
    /\ odoo_calls = <<>> /\ final_protocol = None /\ memory_file = None

C6_NothingExportedAutomatically ==
    [][odoo_calls' # odoo_calls \/ final_protocol' # final_protocol
          \/ memory_file' # memory_file \/ handed' # handed
          => /\ phase = "review"
             /\ Drafts(items) = {}
             /\ Drafts(items') = {}]_vars

\* An export that created a task, wrote the protocol and saved to the
\* knowledge store, with a rejected item left out.
C6_Witness ==
    /\ \E c \in Range(odoo_calls) : c.ok
    /\ final_protocol # None
    /\ memory_file # None
    /\ \E k \in DOMAIN items : items[k].status = "rejected" /\ items[k].id \notin handed

\* C7: approved_data is non-null if and only if status is approved.
C7_ApprovedDataIffApproved ==
    \A k \in DOMAIN items : (items[k].approved_data # None) <=> (items[k].status = "approved")

\* C8: reviewed_by and reviewed_at are both null if and only if status is draft.
C8_ReviewStampIffReviewed ==
    \A k \in DOMAIN items :
        (items[k].reviewed_by = None /\ items[k].reviewed_at = None) <=> (items[k].status = "draft")

\* A loaded session holding a rejected item with its stamp beside a draft one.
C8_Witness ==
    /\ \E j, k \in DOMAIN items :
          /\ items[j].status = "rejected" /\ items[j].reviewed_by # None /\ items[j].reviewed_at # None
          /\ items[k].status = "draft" /\ items[k].reviewed_by = None
    /\ file = Some(Encode(meeting_id, title, created_at, items))

\* C9: reviewed_by and reviewed_at are written once, when the item leaves
\* draft; no later call (a load aside, which puts back what was saved)
\* changes them.
C9_ReviewStampWrittenOnce ==
    [][~Load
          => \A k \in DOMAIN items :
                Terminal(items[k]) /\ k \in DOMAIN items'
                => /\ items'[k].reviewed_by = items[k].reviewed_by
                   /\ items'[k].reviewed_at = items[k].reviewed_at]_vars

\* C10: an item with a reject_reason has status rejected.
C10_RejectReasonOnlyOnRejected ==
    \A k \in DOMAIN items : items[k].reject_reason # None => items[k].status = "rejected"

\* C11: original_data of every item holds the same mapping after every call
\* (approve with or without edits, reject, approve_all, save, load, export with
\* tasks created) and after the analysis that was ingested is changed in place.
C11_OriginalDataNeverMutated ==
    [][phase = "review"
          => /\ Len(items') = Len(items)
             /\ \A k \in DOMAIN items : items'[k].original_data = items[k].original_data]_vars

\* An action item approved with an edited deadline whose task export created:
\* the task id and the edit sit in approved_data, original_data has neither.
C11_Witness ==
    \E k \in DOMAIN items :
        /\ items[k].approved_data # None
        /\ "odoo_task_id" \in DOMAIN Get(items[k].approved_data)
        /\ "odoo_task_id" \notin DOMAIN items[k].original_data
        /\ Get(items[k].approved_data).deadline # items[k].original_data.deadline

\* What a session is to its caller: the items, the summary item, and the
\* answers of progress, is_complete and the export accessors.
View(its, smry) ==
    [items |-> its,
     summary_item |-> smry,
     progress |-> progress(its),
     is_complete |-> is_complete(its),
     action_items |-> Values(its, get_approved_action_items(its)),
     decisions |-> Values(its, get_approved_decisions(its)),
     open_questions |-> Values(its, approved_open_questions(its)),
     summary |-> get_approved_summary(its, smry)]

\* The session load() builds from what save() writes of the current one.
Reloaded == Decode(Encode(meeting_id, title, created_at, items), StatePath)

\* C12: load(save(s)) has the meeting_id, title, created_at, item count and
\* item order of s, every field of every item, and the same summary item.
C12_RoundTrip ==
    phase = "review"
    => LET s == Reloaded
       IN  /\ ~LoadRaises(Encode(meeting_id, title, created_at, items))
           /\ s.meeting_id = meeting_id
           /\ s.title = title
           /\ s.created_at = created_at
           /\ Len(s.items) = Len(items)
           /\ \A k \in DOMAIN items :
                 /\ s.items[k].id = items[k].id
                 /\ s.items[k].kind = items[k].kind
                 /\ s.items[k].status = items[k].status
                 /\ s.items[k].original_data = items[k].original_data
                 /\ s.items[k].approved_data = items[k].approved_data
                 /\ s.items[k].reviewed_by = items[k].reviewed_by
                 /\ s.items[k].reviewed_at = items[k].reviewed_at
                 /\ s.items[k].reject_reason = items[k].reject_reason
           /\ s.summary_item = summary_item

\* The saved session holds an item approved with an edit and an item
\* rejected with a reason.
C12_Witness ==
    /\ file = Some(Encode(meeting_id, title, created_at, items))
    /\ \E j, k \in DOMAIN items :
          /\ items[j].status = "approved" /\ items[j].approved_data # Some(items[j].original_data)
          /\ items[k].status = "rejected" /\ items[k].reject_reason # None

\* C13: the session saved and loaded back answers progress, is_complete and
\* the accessors as the session in memory does, and every further call
\* (approve_item, reject_item, approve_all; the export gate reads
\* is_complete) leaves on it the same items and the same answers.
C13_Resumable ==
    phase = "review"
    => LET s == Reloaded
       IN  /\ View(s.items, s.summary_item) = View(items, summary_item)
           /\ \A r \in Reviewers :
                 /\ View(approve_all(s.items, r, clock), s.summary_item)
                       = View(approve_all(items, r, clock), summary_item)
                 /\ \A i \in ItemIdInputs :
                       /\ \A c \in ChangesInputs :
                             approve_item(s.items, i, r, clock, c) = approve_item(items, i, r, clock, c)
                       /\ \A why \in ReasonInputs :
                             reject_item(s.items, i, r, clock, why) = reject_item(items, i, r, clock, why)

\* Mid-review, on the session as saved: an item approved with an edit, and
\* export refused for the one item still draft.
C13_Witness ==
    /\ file = Some(Encode(meeting_id, title, created_at, items))
    /\ raised = Raised("RuntimeError", 1)
    /\ \E k \in DOMAIN items :
          items[k].status = "approved" /\ items[k].approved_data # Some(items[k].original_data)

\* A document that lacks a required key or holds an unknown status or kind.
Malformed(doc) ==
    \/ (SessionKeys \cup {"items"}) \ DOMAIN doc # {}
    \/ \E k \in DOMAIN DocItems(doc) :
          \/ ItemKeys \ DOMAIN DocItems(doc)[k] # {}
          \/ DocItems(doc)[k].status \notin Statuses
          \/ DocItems(doc)[k].kind \notin Kinds

\* C14: load() of a document that lacks a required key or holds an unknown
\* status or kind raises an error and hands the caller no session.
C14_MalformedStateRejected ==
    [][Load /\ Malformed(Get(file))
          => /\ raised'.type # "none"
             /\ UNCHANGED <<meeting_id, title, created_at, items, summary_item>>]_vars

\* C15: approve_item and reject_item with an id no item carries report
\* not-found to the caller and change no item.
C15_UnknownIdReported ==
    [][\A i \in ItemIdInputs, r \in Reviewers, c \in ChangesInputs, why \in ReasonInputs :
          /\ get_by_id(items, i) = 0
          /\ ApproveItem(i, r, c) \/ RejectItem(i, r, why)
          => /\ raised'.type = "NotFound"
             /\ items' = items]_vars

\* A session as a first ingest leaves it.
Fresh(its) ==
    /\ \A k \in DOMAIN its :
          /\ its[k].status = "draft"
          /\ its[k].approved_data = None
          /\ its[k].reviewed_by = None
          /\ its[k].reviewed_at = None
          /\ its[k].reject_reason = None
    /\ is_complete(its) <=> Len(its) = 0

\* C16: after the first ingest every item is draft with approved_data,
\* reviewed_by, reviewed_at and reject_reason null, and is_complete is true
\* exactly when the session has no item.
C16_FreshSessionAllDraft ==
    [][phase = "constructed" \/ items = <<>>
          => \A a \in IngestAnalyses :
                (\E t \in TitleInputs : Process(a, t)) \/ AddFromAnalysis(a)
                => Fresh(items')]_vars

\* Just ingested: as many draft items as an analysis can carry, not complete.
C16_Witness ==
    /\ phase = "review"
    /\ Len(items) = MaxItems
    /\ Fresh(items)
    /\ ~is_complete(items)
    /\ file = Some(Encode(meeting_id, title, created_at, items))

\* The items an analysis has to yield: one per entry, the summary first, then
\* the action items, the decisions and the open questions, each category in
\* the order of the input.
Ingested(a, its) ==
    LET s == IF a.summary # None /\ Get(a.summary) # "" THEN 1 ELSE 0
        na == Len(a.action_items)
        nd == Len(a.decisions)
        nq == Len(a.open_questions)
    IN  /\ Len(its) = s + na + nd + nq
        /\ s = 1 => its[1].kind = "summary" /\ its[1].original_data = [text |-> Get(a.summary)]
        /\ \A k \in 1..na :
              its[s + k].kind = "action_item" /\ its[s + k].original_data = a.action_items[k]
        /\ \A k \in 1..nd :
              its[s + na + k].kind = "decision" /\ its[s + na + k].original_data = a.decisions[k]
        /\ \A k \in 1..nq :
              /\ its[s + na + nd + k].kind = "open_question"
              /\ its[s + na + nd + k].original_data = a.open_questions[k]
        /\ \A j, k \in DOMAIN its : j # k => its[j].id # its[k].id

\* C17: ingest builds one item per entry of the analysis, in the order
\* summary, action items, decisions, open questions and in input order
\* within each; an absent or empty summary and a missing list yield no item.
C17_IngestOneItemPerEntry ==
    [][phase = "constructed" \/ items = <<>>
          => \A a \in IngestAnalyses :
                (\E t \in TitleInputs : Process(a, t)) \/ AddFromAnalysis(a)
                => /\ Ingested(a, items')
                   /\ summary_item' = IF a.summary # None /\ Get(a.summary) # "" THEN 1 ELSE 0]_vars

\* Two different action items ingested, in the order they were given.
C17_Witness ==
    /\ Len(items) = 2
    /\ items[1].kind = "action_item" /\ items[1].original_data.description = "Book venue"
    /\ items[2].kind = "action_item" /\ items[2].original_data.description = "Write budget plan"
    /\ Fresh(items)

\* C18: add_from_analysis on a session that already holds items raises an
\* error and adds no item.
C18_IngestOnce ==
    [][\A a \in IngestAnalyses :
          items # <<>> /\ AddFromAnalysis(a)
          => /\ raised'.type # "none"
             /\ items' = items]_vars

\* C19: approve_item on a draft item sets status approved and approved_data
\* to original_data with the edits merged over it: every edited key has the
\* edited value, every other original key keeps its value, no key is lost,
\* and without edits approved_data equals original_data.
C19_ApproveMergesEdits ==
    [][\A i \in ItemIdInputs :
          get_by_id(items, i) # 0 /\ items[get_by_id(items, i)].status = "draft"
          => \A r \in Reviewers, c \in ChangesInputs :
                ApproveItem(i, r, c)
                => LET k == get_by_id(items, i)
                       original == items[k].original_data
                       edits == IF c = None THEN EmptyDict ELSE Get(c)
                       merged == items'[k].approved_data
                   IN  /\ items'[k].status = "approved"
                       /\ items'[k].original_data = original
                       /\ merged # None
                       /\ DOMAIN Get(merged) = DOMAIN original \cup DOMAIN edits
                       /\ \A key \in DOMAIN edits : Get(merged)[key] = edits[key]
                       /\ \A key \in DOMAIN original \ DOMAIN edits : Get(merged)[key] = original[key]
                       /\ DOMAIN edits = {} => Get(merged) = original]_vars

\* The action item approved by Max with the deadline edited: the new
\* deadline beside the description and assignee of the original.
C19_Witness ==
    \E k \in DOMAIN items :
        /\ items[k].status = "approved"
        /\ items[k].reviewed_by = Some("Max")
        /\ items[k].approved_data
              = Some([description |-> "Write budget plan", assignee |-> "Anna", deadline |-> "2026-03-01"])
        /\ items[k].original_data.deadline = "2026-02-28"

\* C20: the data property returns approved_data when the item's status is
\* approved and original_data when it is draft or rejected.
C20_CurrentDataFollowsStatus ==
    \A k \in DOMAIN items :
        data(items[k]) = IF items[k].status = "approved" /\ items[k].approved_data # None
                         THEN Get(items[k].approved_data)
                         ELSE items[k].original_data

\* The ids of the draft items, in item order.
PendingIds(its) == [n \in 1..Len(get_pending(its)) |-> its[get_pending(its)[n]].id]

\* approve_item(id, reviewer) without edits, called for each id in turn.
RECURSIVE ApproveInTurn(_, _, _, _)
ApproveInTurn(its, ids, reviewer, now) ==
    IF ids = <<>> THEN its
    ELSE ApproveInTurn(approve_item(its, Head(ids), reviewer, now, None), Tail(ids), reviewer, now + 1)

\* C21: approve_all(reviewer) leaves what approve_item(id, reviewer) without
\* edits leaves when called for each draft item in item order: every item
\* that was draft is approved by the reviewer with approved_data equal to
\* original_data, every other item is as it was.
C21_ApproveAllIsApproveEach ==
    [][\A r \in Reviewers :
          ApproveAll(r)
          => /\ items' = ApproveInTurn(items, PendingIds(items), r, clock)
             /\ \A k \in DOMAIN items :
                   IF items[k].status = "draft"
                   THEN /\ items'[k].status = "approved"
                        /\ items'[k].approved_data = Some(items[k].original_data)
                        /\ items'[k].reviewed_by = Some(r)
                   ELSE items'[k] = items[k]]_vars

\* Max rejected one item with a reason, then Anna's approve_all approved the
\* other and left the rejected one alone.
C21_Witness ==
    \E j, k \in DOMAIN items :
        /\ items[j].status = "rejected" /\ items[j].reviewed_by = Some("Max")
        /\ items[j].reject_reason = Some("duplicate")
        /\ items[k].status = "approved" /\ items[k].reviewed_by = Some("Anna")
        /\ items[k].approved_data = Some(items[k].original_data)
        /\ Get(items[j].reviewed_at) < Get(items[k].reviewed_at)

\* C22: right after an approve_all, another approve_all by any reviewer
\* changes no field of any item and leaves progress as it is.
C22_ApproveAllIdempotent ==
    [][\A r \in Reviewers :
          ApproveAll(r)
          => \A again \in Reviewers :
                /\ approve_all(items', again, clock') = items'
                /\ progress(approve_all(items', again, clock')) = progress(items')]_vars

\* Two items approved in one sweep by Max: consecutive stamps, no edits.
C22_Witness ==
    /\ Len(items) = 2
    /\ \A k \in DOMAIN items :
          /\ items[k].status = "approved" /\ items[k].reviewed_by = Some("Max")
          /\ items[k].approved_data = Some(items[k].original_data)
    /\ Get(items[2].reviewed_at) = Get(items[1].reviewed_at) + 1

\* round(reviewed / total * 100), halves rounded up.
RoundedPercent(reviewed, total) == (reviewed * 200 + total) \div (2 * total)

\* C23: progress.percent is round(reviewed / total * 100) when the session
\* has items and 100 when it has none.
C23_PercentIsRounded ==
    phase = "review"
    => progress(items).percent
         = IF Len(items) = 0 THEN 100
           ELSE RoundedPercent(progress(items).reviewed, Len(items))

\* C24: total = approved + rejected + pending, reviewed = approved +
\* rejected, pending is the number of draft items, and is_complete holds
\* exactly when pending is 0.
C24_AccountingConsistent ==
    LET p == progress(items)
    IN  /\ p.total = p.approved + p.rejected + p.pending
        /\ p.reviewed = p.approved + p.rejected
        /\ p.pending = Cardinality(Drafts(items))
        /\ is_complete(items) <=> p.pending = 0

\* C25: of two calls (approve_item / reject_item) issued for the same draft
\* item, whichever runs second finds the item decided: it raises an
\* invalid-transition error and leaves the status, approved_data and
\* reviewed_by the first call wrote.
C25_RaceHasOneWinner ==
    [][\A i \in ItemIdInputs :
          get_by_id(items, i) # 0 /\ items[get_by_id(items, i)].reviewed_by # None
          => \A second \in Reviewers, c \in ChangesInputs, why \in ReasonInputs :
                ApproveItem(i, second, c) \/ RejectItem(i, second, why)
                => LET k == get_by_id(items, i)
                   IN  /\ raised'.type = "InvalidTransition"
                       /\ items'[k].status = items[k].status
                       /\ items'[k].approved_data = items[k].approved_data
                       /\ items'[k].reviewed_by = items[k].reviewed_by]_vars

\* One approve_item or reject_item call, as its arguments.
ReviewOps ==
    [op : {"approve"}, reviewer : Reviewers, changes : ChangesInputs, reason : {None}]
        \cup [op : {"reject"}, reviewer : Reviewers, changes : {None}, reason : ReasonInputs]

Apply(its, item_id, o, now) ==
    IF o.op = "approve" THEN approve_item(its, item_id, o.reviewer, now, o.changes)
    ELSE reject_item(its, item_id, o.reviewer, now, o.reason)

\* The items without the value of their timestamps.
Unstamped(its) ==
    [k \in DOMAIN its |-> [its[k] EXCEPT !.reviewed_at = IF @ = None THEN None ELSE Some(0)]]

\* C26: for two different ids a and b and any approve_item / reject_item
\* calls opA on a and opB on b, opA then opB leaves the same items (the value
\* of reviewed_at aside) and the same progress as opB then opA.
C26_DifferentItemsCommute ==
    phase = "review"
    => \A a, b \in ItemIdInputs :
          a < b
          => \A opA, opB \in ReviewOps :
                LET ab == Apply(Apply(items, a, opA, clock), b, opB, clock + 1)
                    ba == Apply(Apply(items, b, opB, clock), a, opA, clock + 1)
                IN  /\ Unstamped(ab) = Unstamped(ba)
                    /\ progress(ab) = progress(ba)

\* Max approved the first item with an edit, Anna rejected the second with
\* a reason.
C26_Witness ==
    /\ Len(items) = 2
    /\ items[1].status = "approved" /\ items[1].reviewed_by = Some("Max")
    /\ items[1].approved_data # Some(items[1].original_data)
    /\ items[2].status = "rejected" /\ items[2].reviewed_by = Some("Anna")
    /\ items[2].reject_reason = Some("duplicate")

\* C27: an export that passes the gate goes through every sub-step whatever
\* fails in another one: the final document is written unless its own write
\* fails, and the knowledge store is written unless its own write fails (a
\* failing document write does not keep the knowledge-store write away).
C27_ExportBestEffort ==
    [][\A cfg \in Configs, failing \in SUBSET ActionItems(items), abort \in Aborts :
          /\ is_complete(items)
          /\ Export(cfg, failing, abort)
          => /\ draft_written /\ abort # "write" => final_protocol' # None
             /\ cfg.memory /\ abort # "memory"
                => /\ memory_file' # None
                   /\ Get(memory_file').protocol_md = final_protocol'
                   /\ memory_file' # memory_file \/ exports > 0]_vars

\* The approved action items, by position in the item list.
ApprovedActions(its) ==
    {k \in DOMAIN its : its[k].kind = "action_item" /\ its[k].status = "approved"}

\* The create_task calls one export() call added.
NewCalls == SubSeq(odoo_calls', Len(odoo_calls) + 1, Len(odoo_calls'))

\* C28: an export with Odoo configured calls create_task once for each
\* approved action item, in item order, whichever of the calls fail; an item
\* whose call fails stays approved and is left as it was, every other one
\* that names assignee and description gets its task id.
C28_TaskPerApprovedActionItem ==
    [][is_complete(items) /\ UNCHANGED <<phase, clock, file>>
       => \A cfg \in Configs, failing \in SUBSET ActionItems(items), abort \in Aborts :
             /\ cfg.odoo
             /\ Export(cfg, failing, abort)
             => LET todo == ApprovedActions(items)
                    at(n) == CHOOSE k \in DOMAIN items : items[k].id = NewCalls[n].item
                IN  /\ Len(NewCalls) = Cardinality(todo)
                    /\ {NewCalls[n].item : n \in DOMAIN NewCalls} = {items[k].id : k \in todo}
                    /\ \A m, n \in DOMAIN NewCalls : m < n => at(m) < at(n)
                    /\ \A n \in DOMAIN NewCalls :
                          NewCalls[n].ok <=> at(n) \notin failing /\ HasTaskKeys(data(items[at(n)]))
                    /\ \A k \in todo :
                          /\ items'[k].status = "approved"
                          /\ IF k \notin failing /\ HasTaskKeys(data(items[k]))
                             THEN "odoo_task_id" \in DOMAIN data(items'[k])
                             ELSE items'[k] = items[k]]_vars

\* Two approved action items exported: the call for the first failed, the
\* call for the second created a task, and both items are still approved.
C28_Witness ==
    /\ Len(odoo_calls) = 2
    /\ ~odoo_calls[1].ok /\ odoo_calls[2].ok
    /\ Len(items) = 2
    /\ items[1].id = odoo_calls[1].item /\ items[2].id = odoo_calls[2].item
    /\ items[1].status = "approved" /\ "odoo_task_id" \notin DOMAIN data(items[1])
    /\ items[2].status = "approved" /\ "odoo_task_id" \in DOMAIN data(items[2])

StatusOf(its) == [k \in DOMAIN its |-> its[k].status]

\* The statuses the state file records.
StatusInFile == [k \in DOMAIN DocItems(Get(file)) |-> DocItems(Get(file))[k].status]

\* C29: export (completed, refused by the gate or failing part way), save and
\* a later write to the ingested analysis leave the status of every item as it
\* was (a step that changes a status is none of them); the session load
\* returns has the statuses the file records (a step that ends with other
\* statuses is not a load that returned).
C29_OnlyReviewCallsChangeStatus ==
    [][/\ StatusOf(items') # StatusOf(items)
          => ~(\/ ExportCall
               \/ \E path \in PathInputs : Save(path)
               \/ \E e \in AnalysisEdits : MutateAnalysis(e))
       /\ file # None /\ StatusOf(items') # StatusInFile
          => ~(Load /\ raised'.type = "none")]_vars

\* An export has created a task for an approved action item and written the
\* knowledge store; the item is still approved and a rejected item rejected.
C29_Witness ==
    /\ exports > 0
    /\ memory_file # None
    /\ \E j, k \in DOMAIN items :
          /\ items[j].status = "approved" /\ "odoo_task_id" \in DOMAIN data(items[j])
          /\ items[k].status = "rejected"

IdAndKind(its) == [k \in DOMAIN its |-> <<its[k].id, its[k].kind>>]

\* C30: once process() has returned the session, no call (approve_item,
\* reject_item, approve_all, save, load, export) changes the id or the kind of
\* an item, removes an item or moves one to another place in the list.
C30_IdKindAndOrderFixed ==
    [][phase = "review"
       => /\ Len(items') >= Len(items)
          /\ SubSeq(IdAndKind(items'), 1, Len(items)) = IdAndKind(items)]_vars

\* A reviewed session of two items with different ids, exported and loaded
\* back from the file it was saved to.
C30_Witness ==
    /\ exports > 0
    /\ file = Some(Encode(meeting_id, title, created_at, items))
    /\ Len(items) = 2
    /\ items[1].id # items[2].id
    /\ items[1].kind # items[2].kind
    /\ items[1].status = "rejected" /\ items[2].status = "approved"

\* C31: every save() that returns leaves a file that holds the session as it
\* is at that save and nothing of earlier saves: one record per item, in item
\* order, and load() of it gives the session back; the path is the one given,
\* or, for save() without one, the one the session already has, and such a
\* save() does not fail.
C31_SaveOverwrites ==
    [][items' = items /\ exports' = exports /\ raised'.type \in {"none", "ValueError"}
       => \A path \in PathInputs :
             Save(path)
             => /\ path # None \/ state_path # None => raised'.type = "none"
                /\ raised'.type = "none"
                   => LET doc == Get(file')
                          back == Decode(doc, Get(state_path'))
                      IN  /\ state_path' = IF path # None THEN path ELSE state_path
                          /\ Len(DocItems(doc)) = Len(items)
                          /\ \A k \in DOMAIN items : DocItems(doc)[k].id = items[k].id
                          /\ doc.progress = progress(items)
                          /\ ~LoadRaises(doc)
                          /\ back = [meeting_id |-> meeting_id, title |-> title,
                                     created_at |-> created_at, state_path |-> state_path',
                                     items |-> items, summary_item |-> summary_item]]_vars

\* The file process() wrote has been written again after a review: it holds
\* the two reviewed items, once each.
C31_Witness ==
    /\ file = Some(Encode(meeting_id, title, created_at, items))
    /\ Len(DocItems(Get(file))) = 2
    /\ DocItems(Get(file))[1].status = "approved"
    /\ DocItems(Get(file))[2].status = "rejected"
    /\ state_path = Some(StatePath)

\* The statuses a document records, item by item.
DocStatus(doc) == [k \in DOMAIN DocItems(doc) |-> DocItems(doc)[k].status]

\* C32: the session load() returns has the progress and is_complete that its
\* items' statuses give, whatever the progress block of the document says, and
\* export refuses a session with a draft item, also one loaded from a document
\* whose progress block says that nothing is pending.
C32_ProgressRecomputedOnLoad ==
    [][/\ UNCHANGED <<clock, file, exports>> /\ Load /\ raised'.type = "none"
          => LET sts == DocStatus(Get(file))
                 drafts == Cardinality({k \in DOMAIN sts : sts[k] = "draft"})
             IN  /\ progress(items').total = Len(sts)
                 /\ progress(items').pending = drafts
                 /\ progress(items').reviewed = Len(sts) - drafts
                 /\ is_complete(items') <=> drafts = 0
       /\ Drafts(items) # {} /\ UNCHANGED <<phase, clock, file>> /\ ExportCall
          => /\ raised' = Raised("RuntimeError", Cardinality(Drafts(items)))
             /\ UNCHANGED <<items, exportVars>>]_vars

\* The session was loaded from a document whose progress block says that
\* nothing is pending while it records a draft item, and export has refused it.
C32_Witness ==
    /\ file # None
    /\ "progress" \in DOMAIN Get(file) /\ "items" \in DOMAIN Get(file)
    /\ Get(file).progress.pending = 0
    /\ \E k \in DOMAIN DocItems(Get(file)) : DocItems(Get(file))[k].status = "draft"
    /\ ~LoadRaises(Get(file))
    /\ items = Decode(Get(file), StatePath).items
    /\ items # <<>>
    /\ raised.type = "RuntimeError"
    /\ exports = 0

\* C33: no approve_item, reject_item or approve_all call raises the number of
\* draft items, and a session that is complete stays complete.
C33_ReviewProgressMonotone ==
    [][phase = "review"
       => /\ Cardinality(Drafts(items')) <= Cardinality(Drafts(items))
          /\ progress(items').pending <= progress(items).pending
          /\ is_complete(items) => is_complete(items')]_vars

\* A session of one item that was rejected and approved afterwards: complete
\* after the first call and after the second.
C33_Witness ==
    /\ Len(items) = 1
    /\ is_complete(items)
    /\ items[1].status = "approved" /\ items[1].reject_reason # None

\* C34: an export that passes the gate leaves original_data and approved_data
\* of every item as they were, also when it creates tasks.
C34_ExportKeepsReviewData ==
    [][items' # items /\ ExportCall
       => \A k \in DOMAIN items :
             /\ items'[k].original_data = items[k].original_data
             /\ items'[k].approved_data = items[k].approved_data]_vars

\* The place in the list of the item with this id, 0 when there is none.
PlaceOf(its, item_id) ==
    IF \E k \in DOMAIN its : its[k].id = item_id
    THEN CHOOSE k \in DOMAIN its : its[k].id = item_id
    ELSE 0

\* What a call for the id i has done when it left every item but the one
\* with that id alone and moved that one, if it was draft, from pending to
\* reviewed: to approved (gain = 1) or to rejected (gain = 0).
OnlyTargetMoved(i, gain) ==
    LET k == PlaceOf(items, i)
        p == progress(items)
        q == progress(items')
    IN  /\ Len(items') = Len(items)
        /\ \A j \in DOMAIN items : j # k => items'[j] = items[j]
        /\ q.total = p.total
        /\ k # 0 /\ items[k].status = "draft"
           => /\ q.pending = p.pending - 1
              /\ q.reviewed = p.reviewed + 1
              /\ q.approved = p.approved + gain
              /\ q.rejected = p.rejected + (1 - gain)
        /\ k = 0 => q = p

\* C35: approve_item(id, ...) and reject_item(id, ...) leave every item but
\* the one with that id as it is (all of them when no item has the id), and
\* when that item was draft, the progress counts move one item from pending
\* to reviewed and to approved or rejected.
C35_OnlyTargetChanges ==
    [][\A i \in ItemIdInputs, r \in Reviewers :
          /\ \A c \in ChangesInputs : ApproveItem(i, r, c) => OnlyTargetMoved(i, 1)
          /\ \A why \in ReasonInputs : RejectItem(i, r, why) => OnlyTargetMoved(i, 0)]_vars

\* The second of two items was approved with an edit; the first is as
\* add_from_analysis made it.
C35_Witness ==
    /\ Len(items) = 2
    /\ items[1].status = "draft" /\ items[1].reviewed_by = None /\ items[1].approved_data = None
    /\ items[2].status = "approved" /\ items[2].approved_data # Some(items[2].original_data)
    /\ progress(items).pending = 1

\* What a reviewer writes into the summary.
SummaryEdits == {None, Some([text |-> "Edited summary"])}

\* The summary text the review has settled on.
SummaryText(item) ==
    IF Truthy(item.approved_data) THEN Get(item.approved_data).text ELSE item.original_data.text

\* C36: summary_item is set exactly when the items hold one of kind summary,
\* and it is one of them; get_approved_summary returns the summary's text
\* exactly when that item is approved (the edited text when it was approved
\* with an edit) and nothing otherwise.
C36_SummaryConsistent ==
    /\ summary_item # 0 <=> \E k \in DOMAIN items : items[k].kind = "summary"
    /\ summary_item # 0 => summary_item \in DOMAIN items /\ items[summary_item].kind = "summary"
    /\ get_approved_summary(items, summary_item) # None
       <=> summary_item # 0 /\ items[summary_item].status = "approved"
    /\ summary_item # 0
       => /\ items[summary_item].status = "approved"
             => get_approved_summary(items, summary_item) = Some(SummaryText(items[summary_item]))
          /\ \A r \in Reviewers, c \in SummaryEdits :
                LET id == items[summary_item].id
                    yes == approve_item(items, id, r, clock, c)
                    no == reject_item(items, id, r, clock, None)
                IN  /\ get_approved_summary(yes, summary_item)
                         = Some(IF c = None THEN items[summary_item].original_data.text
                                ELSE Get(c).text)
                    /\ get_approved_summary(no, summary_item) = None

\* The session holds an approved summary and a rejected item, and is the one
\* the state file records.
C36_Witness ==
    /\ summary_item = 1
    /\ Len(items) = 2
    /\ items[1].kind = "summary" /\ items[1].status = "approved"
    /\ items[2].status = "rejected"
    /\ file = Some(Encode(meeting_id, title, created_at, items))
    /\ get_approved_summary(items, summary_item) = Some(items[1].original_data.text)

====
